---- MODULE Spec2Model ----
(***************************************************************************)
(* ShortsTurbo: the task scheduler (app/controllers/manager) and the       *)
(* pipeline orchestrator (app/services/task.py) as state machines.         *)
(*                                                                         *)
(* Scheduler.  Work items are numbered in the order in which their         *)
(* addTask calls enter the scheduler's critical section (nextItem), so     *)
(* item i is the i-th submission.  Every `with self.lock:` block is two    *)
(* steps: the acquisition (enabled only while the lock is free) and the    *)
(* body together with the release.  Each worker thread has a position      *)
(* wk[i] in runTask / taskDone / checkQueue.                               *)
(*                                                                         *)
(* Orchestrator.  One run of task.start for one task: tpc is the position  *)
(* in start (and in the helpers it calls), every update_task call is one   *)
(* step, every collaborator call is one step with its outcome chosen       *)
(* nondeterministically.  The task registry (app/services/state.py) is     *)
(* not part of the sources; its record is modelled from the specification  *)
(* (RegistryUpdate).  Progress values are exact rationals, held multiplied *)
(* by the requested output count (Pct).                                    *)
(*                                                                         *)
(* Request layer.  createTask (app/controllers/v1/video.py) makes the       *)
(* record of a task and submits tm.start with its keyword arguments; the   *)
(* worker's call of start is bound as Python binds it (Binds, StartCall).   *)
(* getAllTasks passes its page request to the registry (SpecPages).        *)
(*                                                                         *)
(* Queue backends.  The in-process queue and the Redis list receive the    *)
(* same enqueue and dequeue calls side by side (SpecQueue); the Redis side *)
(* serializes and rebuilds the work item as redis_manager.py does.         *)
(*                                                                         *)
(* Durable scheduler.  Two processes run TaskManager over one Redis list   *)
(* (SpecDurable): each has its own lock and counter; every call of the     *)
(* Redis client (rpush, llen, lpop) is a step of its own that succeeds or  *)
(* raises the client's ConnectionError, and the steps that touch only the  *)
(* state of one process under its lock are taken together.                 *)
(*                                                                         *)
(* Deletion.  deleteVideo removes the record of the task while start may   *)
(* be running (SpecDelete).                                                *)
(***************************************************************************)
EXTENDS Integers, Sequences, FiniteSets, TLC

\* Number of work items (identities 1..NumItems).
NumItems == 4
\* Number of addTask calls in a run that starts from an idle scheduler.
NumSubmit == 3
\* maxConcurrentTasks ranges over 0..MaxCap.
MaxCap == 2

\* params.videoCount ranges over 0..MaxVideoCount.
MaxVideoCount == 5

Items == 1..NumItems

VARIABLES
    maxConcurrentTasks, \* TaskManager.maxConcurrentTasks
    currentTasks,       \* TaskManager.currentTasks
    lock,               \* TaskManager.lock: TRUE while held
    queue,              \* InMemoryTaskManager.queue (queue.Queue, FIFO)
    nextItem,           \* the next addTask call's item
    subPc,              \* position of the thread inside addTask
    wk,                 \* wk[i]: position of item i's worker thread
    how,                \* how[i]: "none", "immediate" or "queued"
    dispatches,         \* dispatches[i]: threads started for item i
    incs,               \* incs[i]: increments of currentTasks by i's worker
    decs,               \* decs[i]: decrements of currentTasks by i's worker
    runs,               \* runs[i]: executions of item i's function
    anyRaised,          \* some item's function raised
    lateSubmit,         \* some addTask ran after a function had finished
    stopAt,             \* start's stopAt argument
    videoSource,        \* params.videoSource
    videoCount,         \* params.videoCount
    tpc,                \* position of the orchestrator in start
    taskState,          \* registry record: state
    taskProgress,       \* registry record: progress (times Den)
    taskFields,         \* registry record: names of the artifact fields set
    loopIndex,          \* generateFinalVideos: i
    progress,           \* generateFinalVideos: progress (times Den)
    lastWrite,          \* arguments of the latest update_task call
    writes,             \* number of update_task calls made
    concatMode,         \* params.videoConcatMode: an enum member or a string
    calls,              \* calls[c]: invocations of collaborator c by this run
    signal,             \* first stage whose collaborator signalled failure
    raised,             \* the step whose exception left start, or "none"
    subtitlePath,       \* start: subtitlePath ("" or a path)
    finalVideoPaths,    \* generateFinalVideos: len(finalVideoPaths)
    combinedVideoPaths, \* generateFinalVideos: len(combinedVideoPaths)
    records,            \* records[i]: registry record of submitted item i
    qMemory,            \* InMemoryTaskManager.queue as a backend on its own
    qRedis,             \* the Redis list "task_queue"
    outMemory,          \* what InMemoryTaskManager.dequeue returned last
    outRedis,           \* what RedisTaskManager.dequeue returned last
    pushRaised,         \* some RedisTaskManager.enqueue call raised
    nPushed,            \* number of enqueue calls made on the backends
    tasksTotal,         \* number of records the registry holds
    response,           \* the latest response of getAllTasks
    dList,              \* the Redis list "task_queue" two processes share
    dLock,              \* dLock[p]: TaskManager.lock of process p
    dCount,             \* dCount[p]: TaskManager.currentTasks of process p
    dPc,                \* dPc[p]: position of the thread that holds p's lock
    dWho,               \* dWho[p]: the item that thread submits or has run
    dName,              \* dName[k]: func.__name__ of item k
    dWk,                \* dWk[k]: position of item k and of its worker
    dProc,              \* dProc[k]: the process item k was submitted to or
                        \* started in
    dExec,              \* dExec[k]: worker threads started for item k
    dErr,               \* the exception that last left an addTask or
                        \* checkQueue call
    dSubmitted,         \* number of addTask calls made on the two processes
    deleted             \* deleteVideo has removed the record of the task

schedVars == <<maxConcurrentTasks, currentTasks, lock, queue, nextItem, subPc,
               wk, how, dispatches, incs, decs, runs, anyRaised, lateSubmit>>

orchVars == <<stopAt, videoSource, videoCount, tpc, taskState, taskProgress,
              taskFields, loopIndex, progress, lastWrite, writes, concatMode,
              calls, signal, raised, subtitlePath, finalVideoPaths,
              combinedVideoPaths, records>>

queueVars == <<qMemory, qRedis, outMemory, outRedis, pushRaised, nPushed>>

pageVars == <<tasksTotal, response>>

durVars == <<dList, dLock, dCount, dPc, dWho, dName, dWk, dProc, dExec, dErr,
             dSubmitted>>

regVars == <<deleted>>

taskVars == <<orchVars, queueVars, pageVars, durVars, regVars>>

\* Positions of a worker thread.
\*   none       no thread yet
\*   started    thread started, waiting for the lock in runTask
\*   incLocked  holds the lock in runTask, before the increment
\*   running    executing func
\*   finally    func ended, waiting for the lock in taskDone
\*   decLocked  holds the lock in taskDone, before the decrement
\*   checkWait  waiting for the lock in checkQueue
\*   checkLocked holds the lock in checkQueue
\*   done       thread ended
WorkerPcs == {"none", "started", "incLocked", "running", "finally",
              "decLocked", "checkWait", "checkLocked", "done"}

\* Worker positions after the item's function has ended.
FuncEnded == {"finally", "decLocked", "checkWait", "checkLocked", "done"}

\* Work items dispatched to a worker thread whose function has not ended.
Executing == {i \in Items : wk[i] \in {"started", "incLocked", "running"}}

SchedInit ==
    /\ maxConcurrentTasks \in 0..MaxCap
    /\ currentTasks = 0
    /\ lock = FALSE
    /\ queue = <<>>
    /\ nextItem = 1
    /\ subPc = "idle"
    /\ wk = [i \in Items |-> "none"]
    /\ how = [i \in Items |-> "none"]
    /\ dispatches = [i \in Items |-> 0]
    /\ incs = [i \in Items |-> 0]
    /\ decs = [i \in Items |-> 0]
    /\ runs = [i \in Items |-> 0]
    /\ anyRaised = FALSE
    /\ lateSubmit = FALSE

\* InMemoryTaskManager.enqueue / dequeue / isQueueEmpty
enqueue(q, i) == Append(q, i)
dequeueItem(q) == Head(q)
dequeueRest(q) == Tail(q)
isQueueEmpty(q) == q = <<>>

\* TaskManager.executeTask: start a thread whose target is runTask.
executeTask(w, i) == [w EXCEPT ![i] = "started"]

\* addTask, `with self.lock:` entered.
AddTaskAcquire ==
    /\ subPc = "idle"
    /\ nextItem <= NumSubmit
    /\ nextItem <= NumItems
    /\ lock = FALSE
    /\ lock' = TRUE
    /\ subPc' = "locked"
    /\ UNCHANGED <<maxConcurrentTasks, currentTasks, queue, nextItem, wk, how,
                   dispatches, incs, decs, runs, anyRaised, lateSubmit,
                   taskVars>>

\* Mutant of AddTaskBody: the capacity test is `<=` instead of `<`.
AddTaskBodyOffByOne ==
    /\ subPc = "locked"
    /\ IF currentTasks <= maxConcurrentTasks
       THEN /\ wk' = executeTask(wk, nextItem)
            /\ dispatches' = [dispatches EXCEPT ![nextItem] = @ + 1]
            /\ how' = [how EXCEPT ![nextItem] = "immediate"]
            /\ UNCHANGED queue
       ELSE /\ queue' = enqueue(queue, nextItem)
            /\ how' = [how EXCEPT ![nextItem] = "queued"]
            /\ UNCHANGED <<wk, dispatches>>
    /\ lateSubmit' = (lateSubmit \/ \E k \in Items : wk[k] \in FuncEnded)
    /\ nextItem' = nextItem + 1
    /\ lock' = FALSE
    /\ subPc' = "idle"
    /\ UNCHANGED <<maxConcurrentTasks, currentTasks, incs, decs, runs, anyRaised,
                   taskVars>>

\* addTask, the body of the with-block and the release of the lock.
AddTaskBody ==
    /\ subPc = "locked"
    /\ IF currentTasks < maxConcurrentTasks
       THEN /\ wk' = executeTask(wk, nextItem)
            /\ dispatches' = [dispatches EXCEPT ![nextItem] = @ + 1]
            /\ how' = [how EXCEPT ![nextItem] = "immediate"]
            /\ UNCHANGED queue
       ELSE /\ queue' = enqueue(queue, nextItem)
            /\ how' = [how EXCEPT ![nextItem] = "queued"]
            /\ UNCHANGED <<wk, dispatches>>
    /\ lateSubmit' = (lateSubmit \/ \E k \in Items : wk[k] \in FuncEnded)
    /\ nextItem' = nextItem + 1
    /\ lock' = FALSE
    /\ subPc' = "idle"
    /\ UNCHANGED <<maxConcurrentTasks, currentTasks, incs, decs, runs, anyRaised,
                   taskVars>>

\* runTask, `with self.lock:` entered.
RunTaskAcquire(i) ==
    /\ wk[i] = "started"
    /\ lock = FALSE
    /\ lock' = TRUE
    /\ wk' = [wk EXCEPT ![i] = "incLocked"]
    /\ UNCHANGED <<maxConcurrentTasks, currentTasks, queue, nextItem, subPc, how,
                   dispatches, incs, decs, runs, anyRaised, lateSubmit,
                   taskVars>>


\* Mutant of RunTaskInc: the lock is acquired without `with` and not
\* released after the increment.
RunTaskIncKeepsLock(i) ==
    /\ wk[i] = "incLocked"
    /\ currentTasks' = currentTasks + 1
    /\ incs' = [incs EXCEPT ![i] = @ + 1]
    /\ wk' = [wk EXCEPT ![i] = "running"]
    /\ UNCHANGED <<maxConcurrentTasks, lock, queue, nextItem, subPc, how,
                   dispatches, decs, runs, anyRaised, lateSubmit,
                   taskVars>>

\* runTask, `self.currentTasks += 1` and the release of the lock.
RunTaskInc(i) ==
    /\ wk[i] = "incLocked"
    /\ currentTasks' = currentTasks + 1
    /\ incs' = [incs EXCEPT ![i] = @ + 1]
    /\ lock' = FALSE
    /\ wk' = [wk EXCEPT ![i] = "running"]
    /\ UNCHANGED <<maxConcurrentTasks, queue, nextItem, subPc, how,
                   dispatches, decs, runs, anyRaised, lateSubmit,
                   taskVars>>

\* runTask, func(*args, **kwargs) returns; the finally clause follows.
FuncReturn(i) ==
    /\ wk[i] = "running"
    /\ runs' = [runs EXCEPT ![i] = @ + 1]
    /\ wk' = [wk EXCEPT ![i] = "finally"]
    /\ UNCHANGED <<maxConcurrentTasks, currentTasks, lock, queue, nextItem, subPc,
                   how, dispatches, incs, decs, anyRaised, lateSubmit,
                   taskVars>>

\* Mutant of FuncRaise: no finally clause, the exception ends the thread
\* without taskDone.
FuncRaiseNoFinally(i) ==
    /\ wk[i] = "running"
    /\ runs' = [runs EXCEPT ![i] = @ + 1]
    /\ anyRaised' = TRUE
    /\ wk' = [wk EXCEPT ![i] = "done"]
    /\ UNCHANGED <<maxConcurrentTasks, currentTasks, lock, queue, nextItem, subPc,
                   how, dispatches, incs, decs, lateSubmit, taskVars>>

\* runTask, func(*args, **kwargs) raises; the finally clause follows.
FuncRaise(i) ==
    /\ wk[i] = "running"
    /\ runs' = [runs EXCEPT ![i] = @ + 1]
    /\ anyRaised' = TRUE
    /\ wk' = [wk EXCEPT ![i] = "finally"]
    /\ UNCHANGED <<maxConcurrentTasks, currentTasks, lock, queue, nextItem, subPc,
                   how, dispatches, incs, decs, lateSubmit,
                   taskVars>>

\* taskDone, `with self.lock:` entered.
TaskDoneAcquire(i) ==
    /\ wk[i] = "finally"
    /\ lock = FALSE
    /\ lock' = TRUE
    /\ wk' = [wk EXCEPT ![i] = "decLocked"]
    /\ UNCHANGED <<maxConcurrentTasks, currentTasks, queue, nextItem, subPc, how,
                   dispatches, incs, decs, runs, anyRaised, lateSubmit,
                   taskVars>>

\* Mutant of TaskDoneDec: taskDone does not go on to checkQueue.
TaskDoneDecNoCheckQueue(i) ==
    /\ wk[i] = "decLocked"
    /\ currentTasks' = currentTasks - 1
    /\ decs' = [decs EXCEPT ![i] = @ + 1]
    /\ lock' = FALSE
    /\ wk' = [wk EXCEPT ![i] = "done"]
    /\ UNCHANGED <<maxConcurrentTasks, queue, nextItem, subPc, how,
                   dispatches, incs, runs, anyRaised, lateSubmit, taskVars>>

\* taskDone, `self.currentTasks -= 1` and the release of the lock.
TaskDoneDec(i) ==
    /\ wk[i] = "decLocked"
    /\ currentTasks' = currentTasks - 1
    /\ decs' = [decs EXCEPT ![i] = @ + 1]
    /\ lock' = FALSE
    /\ wk' = [wk EXCEPT ![i] = "checkWait"]
    /\ UNCHANGED <<maxConcurrentTasks, queue, nextItem, subPc, how,
                   dispatches, incs, runs, anyRaised, lateSubmit,
                   taskVars>>

\* checkQueue, `with self.lock:` entered.
CheckQueueAcquire(i) ==
    /\ wk[i] = "checkWait"
    /\ lock = FALSE
    /\ lock' = TRUE
    /\ wk' = [wk EXCEPT ![i] = "checkLocked"]
    /\ UNCHANGED <<maxConcurrentTasks, currentTasks, queue, nextItem, subPc, how,
                   dispatches, incs, decs, runs, anyRaised, lateSubmit,
                   taskVars>>

\* Mutant of CheckQueueBody: `while` instead of `if`; the counter is not
\* changed by a dispatch, so the loop starts a worker for every queued item.
CheckQueueBodyWhile(i) ==
    /\ wk[i] = "checkLocked"
    /\ IF currentTasks < maxConcurrentTasks /\ ~isQueueEmpty(queue)
       THEN /\ wk' = [j \in Items |->
                        IF j = i THEN "done"
                        ELSE IF \E k \in 1..Len(queue) : queue[k] = j THEN "started"
                        ELSE wk[j]]
            /\ dispatches' = [j \in Items |->
                        IF \E k \in 1..Len(queue) : queue[k] = j
                        THEN dispatches[j] + 1 ELSE dispatches[j]]
            /\ queue' = <<>>
       ELSE /\ wk' = [wk EXCEPT ![i] = "done"]
            /\ UNCHANGED <<queue, dispatches>>
    /\ lock' = FALSE
    /\ UNCHANGED <<maxConcurrentTasks, currentTasks, nextItem, subPc, how,
                   incs, decs, runs, anyRaised, lateSubmit, taskVars>>


\* Mutant of CheckQueueBody: the capacity test leaves one slot unused
\* (`self.currentTasks + 1 < self.maxConcurrentTasks`).
CheckQueueBodySpareSlot(i) ==
    /\ wk[i] = "checkLocked"
    /\ IF currentTasks + 1 < maxConcurrentTasks /\ ~isQueueEmpty(queue)
       THEN /\ wk' = [executeTask(wk, dequeueItem(queue)) EXCEPT ![i] = "done"]
            /\ dispatches' = [dispatches EXCEPT ![dequeueItem(queue)] = @ + 1]
            /\ queue' = dequeueRest(queue)
       ELSE /\ wk' = [wk EXCEPT ![i] = "done"]
            /\ UNCHANGED <<queue, dispatches>>
    /\ lock' = FALSE
    /\ UNCHANGED <<maxConcurrentTasks, currentTasks, nextItem, subPc, how,
                   incs, decs, runs, anyRaised, lateSubmit, taskVars>>

\* checkQueue, the body of the with-block and the release of the lock; the
\* worker thread ends after it.
CheckQueueBody(i) ==
    /\ wk[i] = "checkLocked"
    /\ IF currentTasks < maxConcurrentTasks /\ ~isQueueEmpty(queue)
       THEN /\ wk' = [executeTask(wk, dequeueItem(queue)) EXCEPT ![i] = "done"]
            /\ dispatches' = [dispatches EXCEPT ![dequeueItem(queue)] = @ + 1]
            /\ queue' = dequeueRest(queue)
       ELSE /\ wk' = [wk EXCEPT ![i] = "done"]
            /\ UNCHANGED <<queue, dispatches>>
    /\ lock' = FALSE
    /\ UNCHANGED <<maxConcurrentTasks, currentTasks, nextItem, subPc, how,
                   incs, decs, runs, anyRaised, lateSubmit,
                   taskVars>>

WorkerStep(i) ==
    \/ RunTaskAcquire(i)
    \/ RunTaskInc(i)
    \/ FuncReturn(i)
    \/ FuncRaise(i)
    \/ TaskDoneAcquire(i)
    \/ TaskDoneDec(i)
    \/ CheckQueueAcquire(i)
    \/ CheckQueueBody(i)

SchedNext ==
    \/ AddTaskAcquire
    \/ AddTaskBody
    \/ \E i \in Items : WorkerStep(i)

----------------------------------------------------------------------------
(* Pipeline orchestrator: app/services/task.py *)

StopAts == {"script", "terms", "audio", "subtitle", "materials", "video"}
Sources == {"local", "pexels"}
Terminal == {"Complete", "Failed"}

\* params.videoConcatMode as start receives it: a VideoConcatMode member, a
\* string naming a member, or any other string.
ConcatModes == {"enum", "str", "badstr"}

\* The collaborators start and its helpers call.
Collaborators == {"script", "terms", "audio", "subtitle", "materials",
                  "combine", "composite"}

\* Progress values are held multiplied by Den, so that 50 / videoCount / 2 is
\* an integer number of units.
Den == IF videoCount > 0 THEN videoCount ELSE 1
Pct(p) == p * Den




\* The scheduler processes that share one Redis list, the work items
\* submitted to them, and the names a submitted callable can have: tm.start
\* and a callable that is not in FUNC_MAP.
MaxDurable == 3
Procs == {"p1", "p2"}
DItems == 1..MaxDurable
FuncNames == {"start", "other"}

\* RedisTaskManager.__init__ in both processes: an empty list, no call made.
DurableIdle ==
    /\ dList = <<>>
    /\ dLock = [p \in Procs |-> FALSE]
    /\ dCount = [p \in Procs |-> 0]
    /\ dPc = [p \in Procs |-> "idle"]
    /\ dWho = [p \in Procs |-> 0]
    /\ dName = [k \in DItems |-> "none"]
    /\ dWk = [k \in DItems |-> "none"]
    /\ dProc = [k \in DItems |-> "none"]
    /\ dExec = [k \in DItems |-> 0]
    /\ dErr = "none"
    /\ dSubmitted = 0

\* The work item a dequeue returns when there is none (None), and the
\* response before any getAllTasks request.
NoTask ==
    [func |-> "none", task_id |-> 0,
     params |-> [cls |-> "none", concatType |-> "none", concat |-> "none"]]
NoResponse == [tasks |-> <<>>, total |-> 0, page |-> 0, page_size |-> 0]

\* Both queue backends empty and unused, an empty registry, no request made.
BackendsIdle ==
    /\ qMemory = <<>>
    /\ qRedis = <<>>
    /\ outMemory = NoTask
    /\ outRedis = [got |-> NoTask, sent |-> NoTask]
    /\ pushRaised = FALSE
    /\ nPushed = 0
    /\ tasksTotal = 0
    /\ response = NoResponse
    /\ DurableIdle
    /\ deleted = FALSE

\* The registry's entry for an id it has no record of, and the record
\* createTask makes: status Pending, progress 0, no artifacts.
NoRecord == [state |-> "absent", progress |-> 0, fields |-> {}]
PendingRecord == [state |-> "Pending", progress |-> 0, fields |-> {}]

\* The record of a task that was created and not yet updated, and the
\* orchestrator before its first step.
TaskCreated ==
    /\ tpc = "start"
    /\ taskState = "Pending"
    /\ taskProgress = 0
    /\ taskFields = {}
    /\ loopIndex = 0
    /\ progress = 0
    /\ lastWrite = [state |-> "unset", progress |-> -1]
    /\ writes = 0
    /\ calls = [c \in Collaborators |-> 0]
    /\ signal = "none"
    /\ raised = "none"
    /\ subtitlePath = ""
    /\ finalVideoPaths = 0
    /\ combinedVideoPaths = 0
    /\ records = [i \in Items |-> NoRecord]
    /\ BackendsIdle

\* A run of start for any stopAt, material source and output count.
TaskInit ==
    /\ stopAt \in StopAts
    /\ videoSource \in Sources
    /\ videoCount \in 0..MaxVideoCount
    /\ concatMode \in ConcatModes
    /\ TaskCreated

\* updateTask of the registry: merges the fields given into the record
\* (state "unset" and progress -1 stand for an argument not given); a record
\* that is Complete or Failed ignores the update.  For an id the registry
\* holds no record of, the call makes the record: createTask makes every
\* record with update_task(taskId) (video.py:85).
RegistryUpdate(s, p, f) ==
    IF taskState \in Terminal
    THEN UNCHANGED <<taskState, taskProgress, taskFields>>
    ELSE IF taskState = "absent"
    THEN /\ taskState' = (IF s = "unset" THEN PendingRecord.state ELSE s)
         /\ taskProgress' = (IF p = -1 THEN PendingRecord.progress ELSE p)
         /\ taskFields' = f
    ELSE /\ taskState' = (IF s = "unset" THEN taskState ELSE s)
         /\ taskProgress' = (IF p = -1 THEN taskProgress ELSE p)
         /\ taskFields' = taskFields \cup f

\* A call sm.state.update_task(taskId, state=s, progress=p, **f).
update_task(s, p, f) ==
    /\ lastWrite' = [state |-> s, progress |-> p]
    /\ writes' = writes + 1
    /\ RegistryUpdate(s, p, f)

\* A step of the orchestrator that makes no update_task call.
NoUpdate == UNCHANGED <<taskState, taskProgress, taskFields, lastWrite, writes>>

\* The parameters of the run, and everything outside the orchestrator.
TaskFrame ==
    UNCHANGED <<stopAt, videoSource, videoCount, concatMode, records, schedVars,
                queueVars, pageVars,
                durVars, regVars>>

\* The locals of generateFinalVideos.
LoopFrame ==
    UNCHANGED <<loopIndex, progress, finalVideoPaths, combinedVideoPaths>>

\* A step that calls no collaborator and raises nothing.
CallFrame == UNCHANGED <<calls, signal, raised, subtitlePath>>

\* Collaborator c is invoked once more.
Invoke(c) == calls' = [calls EXCEPT ![c] = @ + 1]

\* The collaborator of stage s returned its failure signal (an empty or
\* invalid result).
Signal(s) == signal' = (IF signal = "none" THEN s ELSE signal)

\* start: update_task(state=PROCESSING, progress=5)
StartProcessing ==
    /\ tpc = "start"
    /\ update_task("Processing", Pct(5), {})
    /\ tpc' = "normalize"
    /\ LoopFrame /\ CallFrame /\ TaskFrame

\* start: if type(params.videoConcatMode) is str: VideoConcatMode(...), which
\* raises ValueError for a string that names no member.
NormalizeConcatMode ==
    /\ tpc = "normalize"
    /\ IF concatMode = "badstr"
       THEN tpc' = "raised" /\ raised' = "normalize"
       ELSE tpc' = "script" /\ UNCHANGED raised
    /\ UNCHANGED <<calls, signal, subtitlePath>>
    /\ NoUpdate /\ LoopFrame /\ TaskFrame

\* start: generateScript returns the script, or nothing (an empty script).
GenerateScript ==
    /\ tpc = "script"
    /\ Invoke("script")
    /\ \E ok \in BOOLEAN :
          /\ tpc' = (IF ok THEN "scriptDone" ELSE "scriptFailed")
          /\ IF ok THEN UNCHANGED signal ELSE Signal("script")
    /\ UNCHANGED <<raised, subtitlePath>>
    /\ NoUpdate /\ LoopFrame /\ TaskFrame


\* Mutant of StartScriptFailed: the failure write names the progress too.
StartScriptFailedResetsProgress ==
    /\ tpc = "scriptFailed"
    /\ update_task("Failed", 0, {})
    /\ tpc' = "returned"
    /\ LoopFrame /\ CallFrame /\ TaskFrame

\* start: no script: update_task(state=FAILED); return
StartScriptFailed ==
    /\ tpc = "scriptFailed"
    /\ update_task("Failed", -1, {})
    /\ tpc' = "returned"
    /\ LoopFrame /\ CallFrame /\ TaskFrame

\* start: update_task(state=PROCESSING, progress=10)
StartScriptDone ==
    /\ tpc = "scriptDone"
    /\ update_task("Processing", Pct(10), {})
    /\ tpc' = (IF stopAt = "script" THEN "scriptStop" ELSE "terms")
    /\ LoopFrame /\ CallFrame /\ TaskFrame

\* start: stopAt == "script": update_task(state=COMPLETE, progress=100, script=...)
StartStopAtScript ==
    /\ tpc = "scriptStop"
    /\ update_task("Complete", Pct(100), {"script"})
    /\ tpc' = "returned"
    /\ LoopFrame /\ CallFrame /\ TaskFrame

\* start: generateTerms when the source is not local (it always returns a
\* non-empty list), then saveScriptData.
GenerateTerms ==
    /\ tpc = "terms"
    /\ IF videoSource # "local" THEN Invoke("terms") ELSE UNCHANGED calls
    /\ tpc' = (IF stopAt = "terms" THEN "termsStop" ELSE "termsDone")
    /\ UNCHANGED <<signal, raised, subtitlePath>>
    /\ NoUpdate /\ LoopFrame /\ TaskFrame

\* start: stopAt == "terms": update_task(state=COMPLETE, progress=100, terms=...)
StartStopAtTerms ==
    /\ tpc = "termsStop"
    /\ update_task("Complete", Pct(100), {"terms"})
    /\ tpc' = "returned"
    /\ LoopFrame /\ CallFrame /\ TaskFrame

\* start: update_task(state=PROCESSING, progress=20)
StartTermsDone ==
    /\ tpc = "termsDone"
    /\ update_task("Processing", Pct(20), {})
    /\ tpc' = "audio"
    /\ LoopFrame /\ CallFrame /\ TaskFrame

\* generateAudio: voice.tts returns a sub maker, or None.
GenerateAudio ==
    /\ tpc = "audio"
    /\ Invoke("audio")
    /\ \E ok \in BOOLEAN :
          /\ tpc' = (IF ok THEN "audioDone" ELSE "audioNone")
          /\ IF ok THEN UNCHANGED signal ELSE Signal("audio")
    /\ UNCHANGED <<raised, subtitlePath>>
    /\ NoUpdate /\ LoopFrame /\ TaskFrame

\* generateAudio: subMaker is None: update_task(state=FAILED); return None
GenerateAudioFailed ==
    /\ tpc = "audioNone"
    /\ update_task("Failed", -1, {})
    /\ tpc' = "audioFailed"
    /\ LoopFrame /\ CallFrame /\ TaskFrame

\* Mutant of StartAudioFailed: the `return` is missing and the next
\* statement, update_task(state=PROCESSING, progress=30), runs.
StartAudioFailedFallsThrough ==
    /\ tpc = "audioFailed"
    /\ update_task("Processing", Pct(30), {})
    /\ tpc' = "returned"
    /\ LoopFrame /\ CallFrame /\ TaskFrame

\* start: no audio file: update_task(state=FAILED); return
StartAudioFailed ==
    /\ tpc = "audioFailed"
    /\ update_task("Failed", -1, {})
    /\ tpc' = "returned"
    /\ LoopFrame /\ CallFrame /\ TaskFrame

\* start: update_task(state=PROCESSING, progress=30)
StartAudioDone ==
    /\ tpc = "audioDone"
    /\ update_task("Processing", Pct(30), {})
    /\ tpc' = (IF stopAt = "audio" THEN "audioStop" ELSE "subtitle")
    /\ LoopFrame /\ CallFrame /\ TaskFrame


\* Mutant of StartStopAtAudio: the `return` is missing and start goes on to
\* generateSubtitle.
StartStopAtAudioNoReturn ==
    /\ tpc = "audioStop"
    /\ update_task("Complete", Pct(100), {"audio_file"})
    /\ tpc' = "subtitle"
    /\ LoopFrame /\ CallFrame /\ TaskFrame

\* start: stopAt == "audio": update_task(state=COMPLETE, progress=100, audio_file=...)
StartStopAtAudio ==
    /\ tpc = "audioStop"
    /\ update_task("Complete", Pct(100), {"audio_file"})
    /\ tpc' = "returned"
    /\ LoopFrame /\ CallFrame /\ TaskFrame

\* start: generateSubtitle returns "" when subtitles are disabled (nothing is
\* called) or when the subtitle file the collaborators left is invalid, and
\* the path otherwise; start does not test the result.
GenerateSubtitle ==
    /\ tpc = "subtitle"
    /\ \E r \in {"disabled", "invalid", "path"} :
          /\ IF r = "disabled" THEN UNCHANGED calls ELSE Invoke("subtitle")
          /\ IF r = "invalid" THEN Signal("subtitle") ELSE UNCHANGED signal
          /\ subtitlePath' = (IF r = "path" THEN "path" ELSE "")
    /\ tpc' = (IF stopAt = "subtitle" THEN "subtitleStop" ELSE "subtitleDone")
    /\ UNCHANGED raised
    /\ NoUpdate /\ LoopFrame /\ TaskFrame

\* start: stopAt == "subtitle": update_task(state=COMPLETE, progress=100, subtitle_path=...)
StartStopAtSubtitle ==
    /\ tpc = "subtitleStop"
    /\ update_task("Complete", Pct(100), {"subtitle_path"})
    /\ tpc' = "returned"
    /\ LoopFrame /\ CallFrame /\ TaskFrame

\* start: update_task(state=PROCESSING, progress=40)
StartSubtitleDone ==
    /\ tpc = "subtitleDone"
    /\ update_task("Processing", Pct(40), {})
    /\ tpc' = "materials"
    /\ LoopFrame /\ CallFrame /\ TaskFrame

\* getVideoMaterials: preprocess_video / download_videos return clips, or
\* nothing.
GetVideoMaterials ==
    /\ tpc = "materials"
    /\ Invoke("materials")
    /\ \E ok \in BOOLEAN :
          /\ tpc' = (IF ~ok THEN "materialsNone"
                     ELSE IF stopAt = "materials" THEN "materialsStop"
                     ELSE "materialsDone")
          /\ IF ok THEN UNCHANGED signal ELSE Signal("materials")
    /\ UNCHANGED <<raised, subtitlePath>>
    /\ NoUpdate /\ LoopFrame /\ TaskFrame


\* Mutant of GetVideoMaterialsFailed: the stage is tried again instead of
\* being failed.
GetVideoMaterialsRetries ==
    /\ tpc = "materialsNone"
    /\ tpc' = "materials"
    /\ NoUpdate /\ LoopFrame /\ CallFrame /\ TaskFrame

\* getVideoMaterials: no materials: update_task(state=FAILED); return None
GetVideoMaterialsFailed ==
    /\ tpc = "materialsNone"
    /\ update_task("Failed", -1, {})
    /\ tpc' = "materialsFailed"
    /\ LoopFrame /\ CallFrame /\ TaskFrame


\* Mutant of StartMaterialsFailed: the failure write also resets the progress.
StartMaterialsFailedResetsProgress ==
    /\ tpc = "materialsFailed"
    /\ update_task("Failed", 0, {})
    /\ tpc' = "returned"
    /\ LoopFrame /\ CallFrame /\ TaskFrame

\* start: no downloaded videos: update_task(state=FAILED); return
StartMaterialsFailed ==
    /\ tpc = "materialsFailed"
    /\ update_task("Failed", -1, {})
    /\ tpc' = "returned"
    /\ LoopFrame /\ CallFrame /\ TaskFrame

\* start: stopAt == "materials": update_task(state=COMPLETE, progress=100, materials=...)
StartStopAtMaterials ==
    /\ tpc = "materialsStop"
    /\ update_task("Complete", Pct(100), {"materials"})
    /\ tpc' = "returned"
    /\ LoopFrame /\ CallFrame /\ TaskFrame

\* start: update_task(state=PROCESSING, progress=50); generateFinalVideos is
\* entered: both lists empty, progress = 50.
StartMaterialsDone ==
    /\ tpc = "materialsDone"
    /\ update_task("Processing", Pct(50), {})
    /\ loopIndex' = 0
    /\ progress' = Pct(50)
    /\ finalVideoPaths' = 0
    /\ combinedVideoPaths' = 0
    /\ tpc' = "loop"
    /\ CallFrame /\ TaskFrame


\* Mutant of CombineVideos: the progress is assigned (`=`) instead of
\* incremented (`+=`).
CombineVideosAssign ==
    /\ tpc = "loop"
    /\ loopIndex < videoCount
    /\ Invoke("combine")
    /\ \E ok \in BOOLEAN : IF ok THEN UNCHANGED signal ELSE Signal("render")
    /\ progress' = 25
    /\ tpc' = "combined"
    /\ UNCHANGED <<loopIndex, finalVideoPaths, combinedVideoPaths, raised,
                   subtitlePath>>
    /\ NoUpdate /\ TaskFrame

\* generateFinalVideos: for i in range(videoCount): combine_videos (it
\* returns "" when it fails; the result is not read);
\* progress += 50 / videoCount / 2
CombineVideos ==
    /\ tpc = "loop"
    /\ loopIndex < videoCount
    /\ Invoke("combine")
    /\ \E ok \in BOOLEAN : IF ok THEN UNCHANGED signal ELSE Signal("render")
    /\ progress' = progress + 25
    /\ tpc' = "combined"
    /\ UNCHANGED <<loopIndex, finalVideoPaths, combinedVideoPaths, raised,
                   subtitlePath>>
    /\ NoUpdate /\ TaskFrame

\* generateFinalVideos: update_task(progress=progress) after combine_videos
CombineProgress ==
    /\ tpc = "combined"
    /\ update_task("unset", progress, {})
    /\ tpc' = "generate"
    /\ LoopFrame /\ CallFrame /\ TaskFrame


\* Mutant of GenerateVideo: the share of an output is not halved
\* (`progress += 50 / videoCount`).
GenerateVideoNotHalved ==
    /\ tpc = "generate"
    /\ Invoke("composite")
    /\ progress' = progress + 50
    /\ tpc' = "generated"
    /\ UNCHANGED <<loopIndex, finalVideoPaths, combinedVideoPaths, signal,
                   raised, subtitlePath>>
    /\ NoUpdate /\ TaskFrame

\* generateFinalVideos: generate_video (it returns nothing);
\* progress += 50 / videoCount / 2
GenerateVideo ==
    /\ tpc = "generate"
    /\ Invoke("composite")
    /\ progress' = progress + 25
    /\ tpc' = "generated"
    /\ UNCHANGED <<loopIndex, finalVideoPaths, combinedVideoPaths, signal,
                   raised, subtitlePath>>
    /\ NoUpdate /\ TaskFrame


\* Mutant of GenerateProgress: the combined path is not appended.
GenerateProgressNoCombined ==
    /\ tpc = "generated"
    /\ update_task("unset", progress, {})
    /\ finalVideoPaths' = finalVideoPaths + 1
    /\ loopIndex' = loopIndex + 1
    /\ tpc' = "loop"
    /\ UNCHANGED <<progress, combinedVideoPaths>>
    /\ CallFrame /\ TaskFrame

\* generateFinalVideos: update_task(progress=progress) after generate_video;
\* both paths are appended and the loop goes on.
GenerateProgress ==
    /\ tpc = "generated"
    /\ update_task("unset", progress, {})
    /\ finalVideoPaths' = finalVideoPaths + 1
    /\ combinedVideoPaths' = combinedVideoPaths + 1
    /\ loopIndex' = loopIndex + 1
    /\ tpc' = "loop"
    /\ UNCHANGED progress
    /\ CallFrame /\ TaskFrame

\* generateFinalVideos returns; start tests `not finalVideoPaths`.
FinalVideosReturn ==
    /\ tpc = "loop"
    /\ loopIndex >= videoCount
    /\ tpc' = (IF finalVideoPaths = 0 THEN "videosFailed" ELSE "videosDone")
    /\ NoUpdate /\ LoopFrame /\ CallFrame /\ TaskFrame

\* start: no final videos: update_task(state=FAILED); return
StartVideosFailed ==
    /\ tpc = "videosFailed"
    /\ update_task("Failed", -1, {})
    /\ tpc' = "returned"
    /\ LoopFrame /\ CallFrame /\ TaskFrame

\* start: update_task(state=COMPLETE, progress=100, **kwargs); return kwargs
StartComplete ==
    /\ tpc = "videosDone"
    /\ update_task("Complete", Pct(100),
                   {"videos", "combined_videos", "script", "terms", "audio_file",
                    "audio_duration", "subtitle_path", "materials"})
    /\ tpc' = "returned"
    /\ LoopFrame /\ CallFrame /\ TaskFrame

\* The stage a position of start belongs to, for the positions at which a
\* collaborator is called.
CallStage ==
    [p \in {"script", "terms", "audio", "subtitle", "materials", "loop",
            "generate"} |->
        IF p = "loop" THEN "combine"
        ELSE IF p = "generate" THEN "composite"
        ELSE p]

\* A collaborator raises instead of returning: start has no try/except, the
\* exception leaves start.
CollaboratorRaises ==
    /\ tpc \in DOMAIN CallStage
    /\ tpc = "loop" => loopIndex < videoCount
    /\ tpc = "terms" => videoSource # "local"
    /\ Invoke(CallStage[tpc])
    /\ raised' = CallStage[tpc]
    /\ tpc' = "raised"
    /\ UNCHANGED <<signal, subtitlePath>>
    /\ NoUpdate /\ LoopFrame /\ TaskFrame

TaskNext ==
    \/ StartProcessing
    \/ NormalizeConcatMode
    \/ CollaboratorRaises
    \/ GenerateScript
    \/ StartScriptFailed
    \/ StartScriptDone
    \/ StartStopAtScript
    \/ GenerateTerms
    \/ StartStopAtTerms
    \/ StartTermsDone
    \/ GenerateAudio
    \/ GenerateAudioFailed
    \/ StartAudioFailed
    \/ StartAudioDone
    \/ StartStopAtAudio
    \/ GenerateSubtitle
    \/ StartStopAtSubtitle
    \/ StartSubtitleDone
    \/ GetVideoMaterials
    \/ GetVideoMaterialsFailed
    \/ StartMaterialsFailed
    \/ StartStopAtMaterials
    \/ StartMaterialsDone
    \/ CombineVideos
    \/ CombineProgress
    \/ GenerateVideo
    \/ GenerateProgress
    \/ FinalVideosReturn
    \/ StartVideosFailed
    \/ StartComplete

----------------------------------------------------------------------------
(* Specifications *)

vars == <<schedVars, taskVars>>

\* One task, not started, beside the scheduler.
TaskIdle ==
    /\ stopAt = "video"
    /\ videoSource = "local"
    /\ videoCount = 1
    /\ concatMode = "enum"
    /\ TaskCreated

\* An idle scheduler, beside the orchestrator.
SchedIdle ==
    /\ SchedInit
    /\ maxConcurrentTasks = MaxCap

Init == SchedInit /\ TaskIdle

Next == SchedNext

Spec == Init /\ [][Next]_vars

\* One run of the orchestrator, for every stopAt, source and output count.
TaskSpecInit == SchedIdle /\ TaskInit

SpecTask == TaskSpecInit /\ [][TaskNext]_vars

\* Every critical section that was entered is left, every started worker
\* thread is scheduled, and every function terminates; submissions are not
\* forced.
FairSpec ==
    /\ Spec
    /\ WF_vars(AddTaskBody)
    /\ \A i \in Items : WF_vars(WorkerStep(i))


\* The keyword arguments createTask hands to addTask (video.py:86), and the
\* parameters of start (task.py:207) with those that have no default.
CreateTaskKeywords == {"task_id", "params", "stop_at"}
StartParameters == {"taskId", "params", "stopAt"}
StartRequired == {"taskId", "params"}

\* Python's binding of a call func(**keywords): every keyword names a
\* parameter and every parameter without a default is given; otherwise the
\* call raises TypeError before the body runs.
Binds(keywords, parameters, required) ==
    /\ keywords \subseteq parameters
    /\ required \subseteq keywords

\* createTask: sm.state.update_task(taskId) makes the record of the task
\* that is submitted next.
CreateRecord ==
    /\ subPc = "idle"
    /\ nextItem <= NumSubmit
    /\ records[nextItem] = NoRecord
    /\ records' = [records EXCEPT ![nextItem] = PendingRecord]
    /\ UNCHANGED <<schedVars, stopAt, videoSource, videoCount, tpc, taskState,
                   taskProgress, taskFields, loopIndex, progress, lastWrite,
                   writes, concatMode, calls, signal, raised, subtitlePath,
                   finalVideoPaths, combinedVideoPaths, queueVars, pageVars,
                   durVars, regVars>>


\* Mutant of CreateTaskAddTask: addTask is called before the record is made.
CreateTaskAddTaskFirst ==
    /\ nextItem <= NumSubmit
    /\ AddTaskAcquire

\* createTask: taskManager.addTask(tm.start, task_id=..., params=...,
\* stop_at=...) follows the update_task call.
CreateTaskAddTask ==
    /\ nextItem <= NumSubmit
    /\ records[nextItem] # NoRecord
    /\ AddTaskAcquire

\* runTask: func(*args, **kwargs) with func = tm.start and the keywords of
\* createTask.  When the call binds, start runs and leaves the record
\* Complete or Failed (it returned) or Processing (an exception left it);
\* when it does not bind, TypeError is raised and start does not run.
StartCall(i) ==
    IF Binds(CreateTaskKeywords, StartParameters, StartRequired)
    THEN /\ wk[i] = "running"
         /\ \E r \in {"Complete", "Failed", "Processing"} :
               /\ records' = [records EXCEPT ![i].state = r]
               /\ anyRaised' = (anyRaised \/ r = "Processing")
         /\ runs' = [runs EXCEPT ![i] = @ + 1]
         /\ wk' = [wk EXCEPT ![i] = "finally"]
         /\ UNCHANGED <<maxConcurrentTasks, currentTasks, lock, queue,
                        nextItem, subPc, how, dispatches, incs, decs,
                        lateSubmit, stopAt, videoSource, videoCount, tpc,
                        taskState, taskProgress, taskFields, loopIndex,
                        progress, lastWrite, writes, concatMode, calls,
                        signal, raised, subtitlePath, finalVideoPaths,
                        combinedVideoPaths, queueVars, pageVars,
                        durVars, regVars>>
    ELSE FuncRaise(i)

\* A step of the worker thread of a task submitted by createTask.
RequestWorkerStep(i) ==
    \/ RunTaskAcquire(i)
    \/ RunTaskInc(i)
    \/ StartCall(i)
    \/ TaskDoneAcquire(i)
    \/ TaskDoneDec(i)
    \/ CheckQueueAcquire(i)
    \/ CheckQueueBody(i)

RequestNext ==
    \/ CreateRecord
    \/ CreateTaskAddTask
    \/ AddTaskBody
    \/ \E i \in Items : RequestWorkerStep(i)

\* Tasks submitted through createTask, from an idle scheduler.
SpecRequest == Init /\ [][RequestNext]_vars


(* Queue backends: memory_manager.py and redis_manager.py *)

\* enqueue calls made on the two backends side by side.
MaxPushes == 2

\* Of the classes of the request bodies createTask submits (TaskVideoRequest,
\* SubtitleRequest, AudioRequest), those that are VideoParams or a subclass.
IsVideoParams(cls) == cls \in {"VideoParams", "TaskVideoRequest"}

\* A parameter object: its class and its videoConcatMode field, which is the
\* plain string "random" when defaulted and a VideoConcatMode member when
\* validated from the request; SubtitleRequest and AudioRequest have no such
\* field.
ParamObjects ==
    {[cls |-> c, concatType |-> "str", concat |-> "random"] :
        c \in {"VideoParams", "TaskVideoRequest"}}
    \cup {[cls |-> c, concatType |-> "enum", concat |-> v] :
            c \in {"VideoParams", "TaskVideoRequest"},
            v \in {"random", "sequential"}}
    \cup {[cls |-> c, concatType |-> "none", concat |-> "none"] :
            c \in {"SubtitleRequest", "AudioRequest"}}

\* redis_manager.FUNC_MAP, by function name.
FUNC_MAP == [n \in {"start"} |-> "start"]

\* RedisTaskManager.enqueue: json.dumps accepts the task when its params were
\* turned into a dict, which is done for instances of VideoParams only; for
\* any other object it raises TypeError.
Serializable(task) == IsVideoParams(task.params.cls)

\* RedisTaskManager.enqueue: params.dict(), func.__name__, json.dumps (a
\* VideoConcatMode member is written as its string).
RedisSerialize(task) ==
    [func |-> task.func, task_id |-> task.task_id,
     params |-> [form |-> "dict", concat |-> task.params.concat]]

\* RedisTaskManager.dequeue: json.loads, FUNC_MAP[name] and
\* VideoParams(**params), which validates the string into a member.
RedisDeserialize(json) ==
    [func |-> FUNC_MAP[json.func], task_id |-> json.task_id,
     params |-> [cls |-> "VideoParams", concatType |-> "enum",
                 concat |-> json.params.concat]]

\* addTask's enqueue of a task on both backends: queue.put, and rpush of the
\* serialized task unless json.dumps raises.
QueuePush ==
    /\ nPushed < MaxPushes
    /\ \E p \in ParamObjects :
          LET task == [func |-> "start", task_id |-> nPushed + 1, params |-> p]
          IN  /\ qMemory' = Append(qMemory, task)
              /\ IF Serializable(task)
                 THEN /\ qRedis' = Append(qRedis, [json |-> RedisSerialize(task),
                                                   sent |-> task])
                      /\ UNCHANGED pushRaised
                 ELSE /\ pushRaised' = TRUE
                      /\ UNCHANGED qRedis
    /\ nPushed' = nPushed + 1
    /\ UNCHANGED <<outMemory, outRedis, schedVars, orchVars, pageVars,
                   durVars, regVars>>

\* checkQueue's dequeue on both backends: each backend that is not empty
\* (queue.empty(), llen == 0) hands out its head (queue.get, lpop).
QueuePop ==
    /\ qMemory # <<>> \/ qRedis # <<>>
    /\ IF qMemory = <<>>
       THEN outMemory' = NoTask /\ UNCHANGED qMemory
       ELSE outMemory' = Head(qMemory) /\ qMemory' = Tail(qMemory)
    /\ IF qRedis = <<>>
       THEN outRedis' = [got |-> NoTask, sent |-> NoTask] /\ UNCHANGED qRedis
       ELSE /\ outRedis' = [got |-> RedisDeserialize(Head(qRedis).json),
                            sent |-> Head(qRedis).sent]
            /\ qRedis' = Tail(qRedis)
    /\ UNCHANGED <<pushRaised, nPushed, schedVars, orchVars, pageVars,
                   durVars, regVars>>

QueueNext == QueuePush \/ QueuePop

\* The two queue backends under the same enqueue and dequeue calls.
SpecQueue == Init /\ [][QueueNext]_vars

Min(a, b) == IF a < b THEN a ELSE b


(* Task listing: getAllTasks in app/controllers/v1/video.py *)

\* The registry holds up to MaxTasks records; requests ask for pages
\* 1..MaxPage of 1..MaxPageSize records.
MaxTasks == 15
MaxPage == 3
MaxPageSize == 10

\* get_all_tasks of the registry: the records, numbered in insertion order,
\* at positions (page-1)*pageSize+1 .. page*pageSize that exist, and the
\* number of records.
get_all_tasks(n, page, pageSize) ==
    LET first == (page - 1) * pageSize
        last == Min(page * pageSize, n)
        len == IF last > first THEN last - first ELSE 0
    IN  [tasks |-> [k \in 1..len |-> first + k], total |-> n]

\* A createTask request has made one more record.
RegisterTask ==
    /\ tasksTotal < MaxTasks
    /\ tasksTotal' = tasksTotal + 1
    /\ UNCHANGED <<response, schedVars, orchVars, queueVars,
                   durVars, regVars>>

\* Mutant of GetAllTasks: page and pageSize are passed in the other order.
GetAllTasksSwapped ==
    /\ \E page \in 1..MaxPage, pageSize \in 1..MaxPageSize :
          LET r == get_all_tasks(tasksTotal, pageSize, page)
          IN  response' = [tasks |-> r.tasks, total |-> r.total,
                           page |-> page, page_size |-> pageSize]
    /\ UNCHANGED <<tasksTotal, schedVars, orchVars, queueVars,
                   durVars, regVars>>

\* getAllTasks(page, pageSize): tasks, total = get_all_tasks(page, pageSize);
\* the response carries both with page and page_size.
GetAllTasks ==
    /\ \E page \in 1..MaxPage, pageSize \in 1..MaxPageSize :
          LET r == get_all_tasks(tasksTotal, page, pageSize)
          IN  response' = [tasks |-> r.tasks, total |-> r.total,
                           page |-> page, page_size |-> pageSize]
    /\ UNCHANGED <<tasksTotal, schedVars, orchVars, queueVars,
                   durVars, regVars>>

PagesNext == RegisterTask \/ GetAllTasks

\* Listing requests against a registry that grows.
SpecPages == Init /\ [][PagesNext]_vars


(* The scheduler on the durable queue: base_manager.py over                *)
(* redis_manager.py, in two processes that share the Redis list            *)

\* Everything outside the schedulers on the durable queue.
DurableFrame == UNCHANGED <<schedVars, orchVars, queueVars, pageVars, regVars>>

\* The with-block of process p is left: the lock is released.
DRelease(p) ==
    /\ dLock' = [dLock EXCEPT ![p] = FALSE]
    /\ dPc' = [dPc EXCEPT ![p] = "idle"]
    /\ dWho' = [dWho EXCEPT ![p] = 0]

\* Exception e leaves the with-block of process p and the call around it.
DRaise(p, e) ==
    /\ DRelease(p)
    /\ dErr' = e

\* addTask(func, ...) in process p: `with self.lock:` is entered and the
\* capacity is tested; the worker thread is started and the lock released,
\* or self.enqueue(...) is entered with the lock held.
DAddTask(p) ==
    /\ dSubmitted < MaxDurable
    /\ ~dLock[p]
    /\ \E n \in FuncNames : dName' = [dName EXCEPT ![dSubmitted + 1] = n]
    /\ dProc' = [dProc EXCEPT ![dSubmitted + 1] = p]
    /\ dSubmitted' = dSubmitted + 1
    /\ IF dCount[p] < maxConcurrentTasks
       THEN /\ dWk' = executeTask(dWk, dSubmitted + 1)
            /\ dExec' = [dExec EXCEPT ![dSubmitted + 1] = @ + 1]
            /\ UNCHANGED <<dLock, dPc, dWho>>
       ELSE /\ dLock' = [dLock EXCEPT ![p] = TRUE]
            /\ dPc' = [dPc EXCEPT ![p] = "rpush"]
            /\ dWho' = [dWho EXCEPT ![p] = dSubmitted + 1]
            /\ UNCHANGED <<dWk, dExec>>
    /\ UNCHANGED <<dList, dCount, dErr>>
    /\ DurableFrame

\* Mutant of DEnqueue: the lock is taken with acquire() and released after
\* the call, so an exception of rpush leaves it held.
DEnqueueKeepsLock(p) ==
    /\ dPc[p] = "rpush"
    /\ \E up \in BOOLEAN :
          IF up
          THEN /\ dList' = Append(dList, [func |-> dName[dWho[p]],
                                          task_id |-> dWho[p]])
               /\ dWk' = [dWk EXCEPT ![dWho[p]] = "queued"]
               /\ DRelease(p)
               /\ UNCHANGED dErr
          ELSE /\ dErr' = "ConnectionError"
               /\ dPc' = [dPc EXCEPT ![p] = "idle"]
               /\ dWho' = [dWho EXCEPT ![p] = 0]
               /\ dWk' = [dWk EXCEPT ![dWho[p]] = "failed"]
               /\ UNCHANGED <<dList, dLock>>
    /\ UNCHANGED <<dCount, dName, dProc, dExec, dSubmitted>>
    /\ DurableFrame

\* RedisTaskManager.enqueue, called inside addTask's with-block: rpush of
\* the item with func.__name__, or the client's ConnectionError when the
\* server is unreachable, which leaves the with-block and addTask.
DEnqueue(p) ==
    /\ dPc[p] = "rpush"
    /\ \E up \in BOOLEAN :
          IF up
          THEN /\ dList' = Append(dList, [func |-> dName[dWho[p]],
                                          task_id |-> dWho[p]])
               /\ dWk' = [dWk EXCEPT ![dWho[p]] = "queued"]
               /\ DRelease(p)
               /\ UNCHANGED dErr
          ELSE /\ DRaise(p, "ConnectionError")
               /\ dWk' = [dWk EXCEPT ![dWho[p]] = "failed"]
               /\ UNCHANGED dList
    /\ UNCHANGED <<dCount, dName, dProc, dExec, dSubmitted>>
    /\ DurableFrame

\* runTask in the worker thread of item k: `with self.lock:
\* self.currentTasks += 1`, then func is running.
DRunTask(p, k) ==
    /\ dWk[k] = "started"
    /\ dProc[k] = p
    /\ ~dLock[p]
    /\ dCount' = [dCount EXCEPT ![p] = @ + 1]
    /\ dWk' = [dWk EXCEPT ![k] = "running"]
    /\ UNCHANGED <<dList, dLock, dPc, dWho, dName, dProc, dExec, dErr,
                   dSubmitted>>
    /\ DurableFrame

\* runTask: func returns or raises, and the finally clause calls taskDone:
\* `with self.lock: self.currentTasks -= 1`.
DTaskDone(p, k) ==
    /\ dWk[k] = "running"
    /\ dProc[k] = p
    /\ ~dLock[p]
    /\ dCount' = [dCount EXCEPT ![p] = @ - 1]
    /\ dWk' = [dWk EXCEPT ![k] = "checkWait"]
    /\ UNCHANGED <<dList, dLock, dPc, dWho, dName, dProc, dExec, dErr,
                   dSubmitted>>
    /\ DurableFrame

\* checkQueue in the thread that ran item k: `with self.lock:` is entered
\* and `self.currentTasks < self.maxConcurrentTasks and ...` is tested: the
\* second operand, self.isQueueEmpty(), is entered only when the first
\* holds; otherwise the with-block ends and the thread with it.
DCheckQueue(p, k) ==
    /\ dWk[k] = "checkWait"
    /\ dProc[k] = p
    /\ ~dLock[p]
    /\ IF dCount[p] < maxConcurrentTasks
       THEN /\ dLock' = [dLock EXCEPT ![p] = TRUE]
            /\ dPc' = [dPc EXCEPT ![p] = "llen"]
            /\ dWho' = [dWho EXCEPT ![p] = k]
            /\ dWk' = [dWk EXCEPT ![k] = "draining"]
       ELSE /\ dWk' = [dWk EXCEPT ![k] = "done"]
            /\ UNCHANGED <<dLock, dPc, dWho>>
    /\ UNCHANGED <<dList, dCount, dName, dProc, dExec, dErr, dSubmitted>>
    /\ DurableFrame

\* RedisTaskManager.isQueueEmpty, called inside checkQueue's with-block:
\* llen == 0, or the client's ConnectionError.
DIsQueueEmpty(p) ==
    /\ dPc[p] = "llen"
    /\ \E up \in BOOLEAN :
          IF ~up
          THEN /\ DRaise(p, "ConnectionError")
               /\ dWk' = [dWk EXCEPT ![dWho[p]] = "done"]
          ELSE IF dList = <<>>
          THEN /\ DRelease(p)
               /\ dWk' = [dWk EXCEPT ![dWho[p]] = "done"]
               /\ UNCHANGED dErr
          ELSE /\ dPc' = [dPc EXCEPT ![p] = "lpop"]
               /\ UNCHANGED <<dLock, dWho, dWk, dErr>>
    /\ UNCHANGED <<dList, dCount, dName, dProc, dExec, dSubmitted>>
    /\ DurableFrame

\* Mutant of DDequeue: the name is looked up with FUNC_MAP.get and an item
\* without a function is skipped.
DDequeueSkipsUnknown(p) ==
    /\ dPc[p] = "lpop"
    /\ \E up \in BOOLEAN :
          IF ~up
          THEN /\ DRaise(p, "ConnectionError")
               /\ dWk' = [dWk EXCEPT ![dWho[p]] = "done"]
               /\ UNCHANGED <<dList, dProc, dExec>>
          ELSE IF dList = <<>>
          THEN /\ DRaise(p, "TypeError")
               /\ dWk' = [dWk EXCEPT ![dWho[p]] = "done"]
               /\ UNCHANGED <<dList, dProc, dExec>>
          ELSE IF Head(dList).func \notin DOMAIN FUNC_MAP
          THEN /\ dList' = Tail(dList)
               /\ DRelease(p)
               /\ dWk' = [dWk EXCEPT ![dWho[p]] = "done",
                                     ![Head(dList).task_id] = "lost"]
               /\ UNCHANGED <<dErr, dProc, dExec>>
          ELSE /\ dList' = Tail(dList)
               /\ dWk' = [executeTask(dWk, Head(dList).task_id)
                             EXCEPT ![dWho[p]] = "done"]
               /\ dProc' = [dProc EXCEPT ![Head(dList).task_id] = p]
               /\ dExec' = [dExec EXCEPT ![Head(dList).task_id] = @ + 1]
               /\ DRelease(p)
               /\ UNCHANGED dErr
    /\ UNCHANGED <<dCount, dName, dSubmitted>>
    /\ DurableFrame

\* RedisTaskManager.dequeue and the rest of checkQueue's with-block: lpop
\* (ConnectionError when the server is unreachable); for an empty list
\* dequeue returns None and taskInfo["func"] raises TypeError; for a name
\* that is not in FUNC_MAP the lookup raises KeyError after the item was
\* taken off the list; otherwise the worker thread is started.
DDequeue(p) ==
    /\ dPc[p] = "lpop"
    /\ \E up \in BOOLEAN :
          IF ~up
          THEN /\ DRaise(p, "ConnectionError")
               /\ dWk' = [dWk EXCEPT ![dWho[p]] = "done"]
               /\ UNCHANGED <<dList, dProc, dExec>>
          ELSE IF dList = <<>>
          THEN /\ DRaise(p, "TypeError")
               /\ dWk' = [dWk EXCEPT ![dWho[p]] = "done"]
               /\ UNCHANGED <<dList, dProc, dExec>>
          ELSE IF Head(dList).func \notin DOMAIN FUNC_MAP
          THEN /\ dList' = Tail(dList)
               /\ DRaise(p, "KeyError")
               /\ dWk' = [dWk EXCEPT ![dWho[p]] = "done",
                                     ![Head(dList).task_id] = "lost"]
               /\ UNCHANGED <<dProc, dExec>>
          ELSE /\ dList' = Tail(dList)
               /\ dWk' = [executeTask(dWk, Head(dList).task_id)
                             EXCEPT ![dWho[p]] = "done"]
               /\ dProc' = [dProc EXCEPT ![Head(dList).task_id] = p]
               /\ dExec' = [dExec EXCEPT ![Head(dList).task_id] = @ + 1]
               /\ DRelease(p)
               /\ UNCHANGED dErr
    /\ UNCHANGED <<dCount, dName, dSubmitted>>
    /\ DurableFrame

DurableNext ==
    \/ \E p \in Procs : DAddTask(p)
    \/ \E p \in Procs : DEnqueue(p)
    \/ \E p \in Procs, k \in DItems : DRunTask(p, k)
    \/ \E p \in Procs, k \in DItems : DTaskDone(p, k)
    \/ \E p \in Procs, k \in DItems : DCheckQueue(p, k)
    \/ \E p \in Procs : DIsQueueEmpty(p)
    \/ \E p \in Procs : DDequeue(p)

\* Two scheduler processes with the same maxConcurrentTasks on one Redis
\* list.
SpecDurable == Init /\ [][DurableNext]_vars


(* Task deletion: deleteVideo in app/controllers/v1/video.py *)

\* deleteVideo(taskId): when get_task finds the record, the task's directory
\* is removed and delete_task removes the record; the scheduler and the
\* orchestrator are not told.  (When there is no record the request ends
\* with 404 and changes nothing.)
DeleteVideo ==
    /\ taskState # "absent"
    /\ taskState' = "absent"
    /\ taskProgress' = 0
    /\ taskFields' = {}
    /\ deleted' = TRUE
    /\ UNCHANGED <<stopAt, videoSource, videoCount, tpc, loopIndex, progress,
                   lastWrite, writes, concatMode, calls, signal, raised,
                   subtitlePath, finalVideoPaths, combinedVideoPaths, records,
                   schedVars, queueVars, pageVars, durVars>>

DeleteNext == TaskNext \/ DeleteVideo

\* One run of the orchestrator with delete requests for its task arriving at
\* any time.
SpecDelete == TaskSpecInit /\ [][DeleteNext]_vars

\* A burst of completions: every item was submitted, one after the other,
\* while the first maxConcurrentTasks items were running (each worker had
\* incremented the counter before the next submission); no further submission
\* follows.
BurstInit ==
    /\ maxConcurrentTasks \in 0..MaxCap
    /\ currentTasks = Min(maxConcurrentTasks, NumItems)
    /\ lock = FALSE
    /\ queue = [k \in 1..(NumItems - currentTasks) |-> currentTasks + k]
    /\ nextItem = NumItems + 1
    /\ subPc = "idle"
    /\ wk = [i \in Items |-> IF i <= currentTasks THEN "running" ELSE "none"]
    /\ how = [i \in Items |-> IF i <= currentTasks THEN "immediate" ELSE "queued"]
    /\ dispatches = [i \in Items |-> IF i <= currentTasks THEN 1 ELSE 0]
    /\ incs = [i \in Items |-> IF i <= currentTasks THEN 1 ELSE 0]
    /\ decs = [i \in Items |-> 0]
    /\ runs = [i \in Items |-> 0]
    /\ anyRaised = FALSE
    /\ lateSubmit = FALSE
    /\ TaskIdle

BurstNext == \E i \in Items : WorkerStep(i)

SpecBurst == BurstInit /\ [][BurstNext]_vars

----------------------------------------------------------------------------
(* Scheduler claims *)

RECURSIVE SumUpTo(_, _)
SumUpTo(f, n) == IF n = 0 THEN 0 ELSE f[n] + SumUpTo(f, n - 1)

\* Queued items for which a worker was started by a completion's drain.
DrainDispatched ==
    SumUpTo([i \in Items |-> IF how[i] = "queued" THEN dispatches[i] ELSE 0], NumItems)

\* Slots freed by completions.
SlotsFreed == SumUpTo(decs, NumItems)

\* Threads inside a critical section of the scheduler.
InCritical ==
    Cardinality({i \in Items : wk[i] \in {"incLocked", "decLocked", "checkLocked"}})
    + (IF subPc = "locked" THEN 1 ELSE 0)

\* Worker positions after the completion signal (the decrement of taskDone).
Signalled == {"checkWait", "checkLocked", "done"}

\* C1: the number of work items executing at the same time (dispatched to a
\* worker thread and not yet finished) never exceeds maxConcurrentTasks.
C1_ExecutingWithinBound == Cardinality(Executing) <= maxConcurrentTasks

\* C2: a submit that finds currentTasks < maxConcurrentTasks increments the
\* running counter itself, inside its critical section, before it returns.
C2_SubmitIncrements ==
    [][(subPc = "locked" /\ subPc' = "idle" /\ currentTasks < maxConcurrentTasks)
        => currentTasks' = currentTasks + 1]_vars

\* C3: with maxConcurrentTasks >= 1, every submitted item, admitted at once or
\* queued, is eventually executed, and no item is dispatched or executed more
\* than once.
C3_EveryItemRunsOnce ==
    /\ [](\A i \in Items : dispatches[i] <= 1 /\ runs[i] <= 1)
    /\ \A i \in Items :
          (how[i] # "none" /\ maxConcurrentTasks >= 1) ~> (runs[i] = 1)

\* C3 witness: a queued item and an item admitted at once have both executed.
C3_Witness ==
    /\ maxConcurrentTasks >= 1
    /\ \E i, j \in Items :
          /\ how[i] = "queued" /\ runs[i] = 1
          /\ how[j] = "immediate" /\ runs[j] = 1

\* C4: queued items are dispatched in the order in which they were queued;
\* and with maxConcurrentTasks = 1 and all jobs submitted before any job has
\* finished, a job starts only after every job submitted before it has
\* finished.
C4_QueuedInOrderOneAtATime ==
    /\ \A j, k \in Items :
          (j < k /\ how[j] = "queued" /\ how[k] = "queued" /\ wk[k] # "none")
              => wk[j] # "none"
    /\ (maxConcurrentTasks = 1 /\ ~lateSubmit) =>
          \A p, q \in Items : (p < q /\ wk[q] # "none") => wk[p] \in FuncEnded

\* C5: a submit made while currentTasks >= maxConcurrentTasks appends the item
\* to the tail of the queue and returns; the item is not started, and the
\* counter and the items already queued are unchanged.
C5_OverflowIsQueued ==
    [][(subPc = "locked" /\ subPc' = "idle" /\ currentTasks >= maxConcurrentTasks)
        => /\ queue' = Append(queue, nextItem)
           /\ currentTasks' = currentTasks
           /\ wk' = wk
           /\ dispatches' = dispatches
           /\ how'[nextItem] = "queued"
           /\ lock' = FALSE]_vars

\* C5 witness: a second item was queued behind a first at full capacity.
C5_Witness ==
    /\ Len(queue) >= 2
    /\ subPc = "idle"
    /\ currentTasks >= maxConcurrentTasks
    /\ maxConcurrentTasks >= 1
    /\ how[queue[Len(queue)]] = "queued"

\* C6: the drain of a completion pops and dispatches queued items while
\* currentTasks < maxConcurrentTasks and the queue is non-empty, incrementing
\* the counter once per dispatch: it dispatches as many items as there are
\* free slots (or queued items, if fewer).
C6_DrainLoops ==
    [][\A i \in Items :
        (wk[i] = "checkLocked" /\ wk'[i] = "done" /\ currentTasks <= maxConcurrentTasks)
            => /\ Len(queue) - Len(queue')
                    = Min(maxConcurrentTasks - currentTasks, Len(queue))
               /\ currentTasks' = currentTasks + (Len(queue) - Len(queue'))]_vars

\* C7: the drain runs under the scheduler's lock, and in a burst of
\* completions the completions never dispatch more queued items than the
\* slots they freed, and the number of executing items stays within
\* maxConcurrentTasks.
C7_BurstDoesNotOverAdmit ==
    /\ InCritical = (IF lock THEN 1 ELSE 0)
    /\ DrainDispatched <= SlotsFreed
    /\ Cardinality(Executing) <= maxConcurrentTasks

\* C7 witness: two completions have freed their slots at nearly the same
\* time; the first has drained a queued item whose worker has not yet
\* incremented the counter, the second is about to drain a non-empty queue.
C7_Witness ==
    \E i, j, k \in Items :
        /\ i # j
        /\ wk[i] = "done"
        /\ wk[j] = "checkLocked"
        /\ how[k] = "queued" /\ wk[k] = "started"
        /\ queue # <<>>
        /\ currentTasks < maxConcurrentTasks

\* C8: every dispatched item is paired with exactly one completion signal,
\* also when its function raises: its worker increments the counter once and
\* decrements it once, and when every dispatched item has signalled the
\* counter is 0.
C8_DispatchPairsWithCompletion ==
    /\ \A i \in Items :
          /\ incs[i] <= dispatches[i]
          /\ decs[i] <= incs[i]
          /\ incs[i] <= 1
          /\ (wk[i] \in FuncEnded \ Signalled) => (incs[i] = 1 /\ decs[i] = 0)
          /\ (wk[i] \in Signalled) => (incs[i] = 1 /\ decs[i] = 1)
    /\ (\A i \in Items : dispatches[i] > 0 => wk[i] \in Signalled)
          => currentTasks = 0

\* C8 witness: some function raised, and every dispatched item has signalled.
C8_Witness ==
    /\ anyRaised
    /\ \E i \in Items : dispatches[i] > 0
    /\ \A i \in Items : dispatches[i] > 0 => wk[i] = "done"
    /\ currentTasks = 0

----------------------------------------------------------------------------
(* Orchestrator claims *)

\* The status changes a task may make.
StatusAdvance == {<<"Pending", "Processing">>,
                  <<"Processing", "Complete">>,
                  <<"Processing", "Failed">>}

\* C9: a task's status only moves forward along Pending -> Processing ->
\* {Complete, Failed}: every change of the recorded status is one of these,
\* and every update the orchestrator makes that names a status names either
\* the current status (Processing, or the terminal status already recorded)
\* or one that follows it.
C9_StatusMovesForward ==
    [][/\ (taskState' # taskState) => (<<taskState, taskState'>> \in StatusAdvance)
       /\ (writes' # writes /\ lastWrite'.state # "unset") =>
              \/ <<taskState, lastWrite'.state>> \in StatusAdvance
              \/ (taskState # "Pending" /\ lastWrite'.state = taskState)]_vars

\* C9 witness: the orchestrator has written to a record that was already
\* Failed (generateAudio's update, then start's) and has returned.
C9_Witness ==
    /\ tpc = "returned"
    /\ taskState = "Failed"
    /\ lastWrite.state = "Failed"
    /\ taskProgress = Pct(20)
    /\ writes = 5

\* C10: in every state of a task, progress = 100 if and only if status =
\* Complete.
C10_HundredIffComplete ==
    (taskProgress = Pct(100)) <=> (taskState = "Complete")

\* C11: while the status of a task is Processing (and when it becomes
\* Processing), no update of the orchestrator lowers the recorded progress,
\* for every stopAt, material source and output count.
C11_ProgressNonDecreasing ==
    [][taskState' = "Processing" => taskProgress' >= taskProgress]_vars

\* The second of two outputs is being rendered: progress has gone 5, 10, 20,
\* 30, 40, 50, 62.5, 75 under Processing.
C11_Witness ==
    /\ taskState = "Processing"
    /\ videoCount = 2
    /\ loopIndex = 1
    /\ tpc = "loop"
    /\ taskProgress = Pct(75)
    /\ writes = 8

\* The stopAt values that end start before the render stage.
EarlyStops == {"script", "terms", "audio", "subtitle", "materials"}

\* The place of a stage, or of a collaborator's stage, in the pipeline.
StageRank ==
    [x \in Collaborators \cup StopAts |->
        CASE x = "script" -> 1
          [] x = "terms" -> 2
          [] x = "audio" -> 3
          [] x = "subtitle" -> 4
          [] x = "materials" -> 5
          [] OTHER -> 6]

\* The record fields that hold the artifacts of the stages up to stage s.
ProducedUpTo(s) ==
    {f \in {"script", "terms", "audio_file", "audio_duration",
            "subtitle_path", "materials"} :
        StageRank[CASE f = "audio_file" -> "audio"
                    [] f = "audio_duration" -> "audio"
                    [] f = "subtitle_path" -> "subtitle"
                    [] OTHER -> f] <= StageRank[s]}

\* C12: for stopAt in {script, terms, audio, subtitle, materials}, no
\* collaborator of a stage after the named one is ever invoked, and when start
\* has returned without any failure signal the record is Complete with
\* progress 100 and holds only artifacts of the stages up to the named one.
C12_EarlyStop ==
    stopAt \in EarlyStops =>
        /\ \A c \in Collaborators :
              StageRank[c] > StageRank[stopAt] => calls[c] = 0
        /\ (tpc = "returned" /\ signal = "none") =>
              /\ taskState = "Complete"
              /\ taskProgress = Pct(100)
              /\ taskFields \subseteq ProducedUpTo(stopAt)

\* stopAt = "audio" with a remote source: script, terms and audio each ran
\* once, the record is Complete and holds the audio file.
C12_Witness ==
    /\ stopAt = "audio"
    /\ videoSource = "pexels"
    /\ tpc = "returned"
    /\ signal = "none"
    /\ taskState = "Complete"
    /\ taskFields = {"audio_file"}
    /\ calls["script"] = 1 /\ calls["terms"] = 1 /\ calls["audio"] = 1

\* The place in the pipeline of the stage that signalled failure.
SignalRank == IF signal = "render" THEN 6 ELSE StageRank[signal]

\* C13: once the collaborator of a stage has signalled failure by an empty or
\* invalid result, no collaborator of a later stage is invoked, and when start
\* has returned the status is Failed.
C13_FailureSignalHalts ==
    signal # "none" =>
        /\ \A c \in Collaborators : StageRank[c] > SignalRank => calls[c] = 0
        /\ tpc = "returned" => taskState = "Failed"

\* C14: with stopAt = "audio" and speech synthesis returning its failure
\* signal, start ends with status Failed, progress 10 (the value set after the
\* script stage), and the subtitle, materials and render collaborators not
\* invoked.
C14_AudioFailureScenario ==
    (stopAt = "audio" /\ signal = "audio" /\ tpc = "returned") =>
        /\ taskState = "Failed"
        /\ taskProgress = Pct(10)
        /\ calls["subtitle"] = 0
        /\ calls["materials"] = 0
        /\ calls["combine"] = 0
        /\ calls["composite"] = 0

\* The full pipeline has returned and no collaborator signalled failure.
FullRunEnded == stopAt = "video" /\ signal = "none" /\ tpc = "returned"

\* The record of a completed full run: Complete, progress 100, the script,
\* the terms, the audio and subtitle references, and as many final and
\* combined outputs as were requested.
FullRecord ==
    /\ taskState = "Complete"
    /\ taskProgress = Pct(100)
    /\ {"script", "terms", "audio_file", "subtitle_path", "videos",
        "combined_videos"} \subseteq taskFields
    /\ finalVideoPaths = videoCount
    /\ combinedVideoPaths = videoCount

C16_RaiseBecomesFailed ==
    raised \in Collaborators => (tpc = "returned" /\ taskState = "Failed")

\* C17: a validation error thrown by the normalization of the parameters
\* reaches the submitter before the record is marked Processing and leaves
\* the record as it was created.
C17_ValidationBeforeProcessing ==
    raised = "normalize" =>
        (taskState = "Pending" /\ taskProgress = 0 /\ writes = 0)

\* C18: a task submitted through createTask whose worker thread has ended was
\* run by start and has a terminal status.
C18_SubmittedReachesTerminal ==
    \A i \in Items : wk[i] = "done" => records[i].state \in Terminal

\* C19: within one run each of the script, terms, audio, subtitle and
\* materials collaborators is invoked at most once, and the combine and
\* composite collaborators at most once per requested output.
C19_NoRetry ==
    /\ \A c \in {"script", "terms", "audio", "subtitle", "materials"} :
          calls[c] <= 1
    /\ calls["combine"] <= videoCount
    /\ calls["composite"] <= videoCount
    /\ calls["combine"] \in {loopIndex, loopIndex + 1}
    /\ calls["composite"] \in {loopIndex, loopIndex + 1}

\* A full run for two outputs: every stage collaborator ran once, combine and
\* composite twice.
C19_Witness ==
    /\ tpc = "returned"
    /\ videoCount = 2
    /\ loopIndex = 2
    /\ \A c \in {"script", "terms", "audio", "subtitle", "materials"} :
          calls[c] = 1
    /\ calls["combine"] = 2
    /\ calls["composite"] = 2

\* What the record would hold after the latest update_task call if the
\* registry merged it.
MergedState == IF lastWrite.state = "unset" THEN taskState ELSE lastWrite.state
MergedProgress ==
    IF lastWrite.progress = -1 THEN taskProgress ELSE lastWrite.progress

\* A step from a Complete or Failed record keeps status and progress, and an
\* update_task call it makes would keep them under a merge too.
TerminalStep ==
    taskState \in Terminal =>
        /\ taskState' = taskState
        /\ taskProgress' = taskProgress
        /\ (writes' # writes) =>
              (MergedState' = taskState /\ MergedProgress' = taskProgress)

\* C20: an update_task call made when the record is Complete or Failed
\* changes neither the status nor the progress, whether the registry ignores
\* the call or merges it.
C20_TerminalIsFinal == [][TerminalStep]_vars

\* getVideoMaterials wrote Failed and start wrote Failed again; the progress
\* is still the 40 of the subtitle stage.
C20_Witness ==
    /\ tpc = "returned"
    /\ signal = "materials"
    /\ taskState = "Failed"
    /\ lastWrite = [state |-> "Failed", progress |-> -1]
    /\ taskProgress = Pct(40)
    /\ writes = 7

\* An update_task call of the orchestrator: a Failed update names only the
\* status, a render sub-step update names only the progress, and the record
\* keeps every field the call does not name.
MergeStep ==
    (writes' # writes) =>
        /\ lastWrite'.state = "Failed" => lastWrite'.progress = -1
        /\ lastWrite'.state = "unset" => lastWrite'.progress # -1
        /\ lastWrite'.progress = -1 => taskProgress' = taskProgress
        /\ lastWrite'.state = "unset" => taskState' = taskState
        /\ lastWrite'.state \in {"Failed", "unset"} => taskFields' = taskFields
        /\ taskFields \subseteq taskFields'

HandedOver(i) == i < nextItem \/ (i = nextItem /\ subPc = "locked")

SameTask(a, b) ==
    /\ a.func = b.func
    /\ a.task_id = b.task_id
    /\ a.params.concat = b.params.concat

\* C23: on the durable queue every enqueue stores the work item, and the
\* item a dequeue returns names the same function and carries the same
\* arguments and an equal parameter object as the item that was enqueued.
C23_RedisRoundTrip ==
    /\ ~pushRaised
    /\ SameTask(outRedis.got, outRedis.sent)

\* C24: under the same enqueue and dequeue calls the in-process queue and the
\* durable queue are empty together, hold as many items, and hand out the
\* same item.
C24_BackendsAgree ==
    /\ (qMemory = <<>>) <=> (qRedis = <<>>)
    /\ Len(qMemory) = Len(qRedis)
    /\ SameTask(outMemory, outRedis.got)

\* A new response lists, in insertion order, exactly the records at positions
\* (page-1)*pageSize+1 .. page*pageSize that exist, with the number of records
\* as total; in particular 10 of 15 on page 1 of size 10 and the last 5 on
\* page 2.
PageStep ==
    (response' # response) =>
        LET r == response'
            lo == (r.page - 1) * r.page_size
            hi == r.page * r.page_size
        IN  /\ r.total = tasksTotal
            /\ Len(r.tasks) =
                  Cardinality({p \in 1..tasksTotal : lo < p /\ p <= hi})
            /\ \A k \in 1..Len(r.tasks) : r.tasks[k] = lo + k
            /\ (tasksTotal = 15 /\ r.page_size = 10 /\ r.page = 1)
                  => Len(r.tasks) = 10
            /\ (tasksTotal = 15 /\ r.page_size = 10 /\ r.page = 2)
                  => r.tasks = <<11, 12, 13, 14, 15>>

C26_StagesInOrder ==
    \A c \in Collaborators :
        calls[c] > 0 =>
            /\ \A d \in {"script", "audio", "materials"} :
                  StageRank[d] < StageRank[c] => calls[d] > 0
            /\ (videoSource # "local" /\ StageRank[c] > StageRank["terms"])
                  => calls["terms"] > 0
            /\ c = "composite" => calls["combine"] > 0
            /\ signal # "none" => SignalRank >= StageRank[c]

\* C27: the progress recorded on success of the stages is script 10, terms
\* 20, audio 30, subtitle 40, materials 50, and a task that is Processing or
\* Failed has reached a stage's value only if that stage ran and succeeded
\* (20 only when the terms collaborator ran).
C27_StageProgressValues ==
    /\ tpc = "terms" => taskProgress = Pct(10)
    /\ tpc = "subtitle" => taskProgress = Pct(30)
    /\ tpc = "materials" => taskProgress = Pct(40)
    /\ (tpc = "loop" /\ loopIndex = 0) => taskProgress = Pct(50)
    /\ taskState \in {"Processing", "Failed"} =>
          /\ taskProgress >= Pct(10) => (calls["script"] = 1 /\ signal # "script")
          /\ taskProgress >= Pct(20) => calls["terms"] = 1
          /\ taskProgress >= Pct(30) => (calls["audio"] = 1 /\ signal # "audio")
          /\ taskProgress >= Pct(40) => signal # "subtitle"
          /\ taskProgress >= Pct(50) =>
                (calls["materials"] = 1 /\ signal # "materials")

\* The progress value of the last stage that completed before the failure
\* (5, the value start begins with, when none did).
LastStageValue ==
    CASE signal = "script" -> Pct(5)
      [] signal = "audio" -> IF videoSource = "local" THEN Pct(10) ELSE Pct(20)
      [] signal = "subtitle" -> Pct(30)
      [] signal = "materials" -> Pct(40)
      [] OTHER -> Pct(50)

\* C28: a run that ended Failed left the record with the progress of the last
\* successfully completed stage and with the artifacts recorded before the
\* failure (none are recorded before a terminal write).
C28_FailedKeepsLastProgress ==
    (tpc = "returned" /\ taskState = "Failed") =>
        (taskProgress = LastStageValue /\ taskFields = {})

\* C29: when the compositor signalled failure on a render step of some
\* output, the run ends Failed and that output is not among the final
\* outputs.
C29_RenderFailureFails ==
    (signal = "render" /\ tpc = "returned") =>
        (taskState = "Failed" /\ finalVideoPaths < videoCount)

\* C30: after the subtitle stage yielded an empty or invalid subtitle file
\* the materials and render collaborators are not invoked and the run ends
\* Failed (also with stopAt = "subtitle").
C30_InvalidSubtitleFails ==
    signal = "subtitle" =>
        /\ calls["materials"] = 0
        /\ calls["combine"] = 0
        /\ calls["composite"] = 0
        /\ tpc = "returned" => taskState = "Failed"

\* The positions of start inside the loop of generateFinalVideos, and the
\* number of sub-steps (combine_videos and generate_video calls) completed.
RenderPcs == {"loop", "combined", "generate", "generated"}
SubSteps == calls["combine"] + calls["composite"]

\* C31: during render with N outputs (25/N an integer) the progress after k
\* of the 2N sub-steps is 50 + k*25/N, it lies in [50, 100], it is 100
\* exactly after the last sub-step, and the value written after a sub-step
\* is that progress.
C31_RenderProgressLinear ==
    (tpc \in RenderPcs /\ videoCount > 0 /\ 25 % videoCount = 0) =>
        /\ SubSteps \in 0..(2 * videoCount)
        /\ progress = Pct(50) + 25 * SubSteps
        /\ progress >= Pct(50) /\ progress <= Pct(100)
        /\ (progress = Pct(100)) <=> (SubSteps = 2 * videoCount)
        /\ tpc \in {"loop", "generate"} => lastWrite.progress = progress

C31_Witness ==
    /\ tpc = "loop"
    /\ videoCount = 5
    /\ SubSteps = 10
    /\ progress = Pct(100)
    /\ lastWrite.progress = Pct(100)

\* A worker thread is created and started by this step.
DispatchStep == \E i \in Items : dispatches'[i] > dispatches[i]

\* C32: the lock is not held while a work item's function executes by the
\* thread executing it, and a worker is created and started only after the
\* lock has been released: no dispatch is made by a step that begins with
\* the lock held.
C32_DispatchAfterRelease == [][DispatchStep => ~lock]_vars

\* addTask starts a worker for the submitted item at once.
AdmitStep == \E i \in Items : how[i] = "none" /\ how'[i] = "immediate"

\* C36: a submitted item is not admitted for immediate execution while
\* items wait in the queue, the window between taskDone's decrement and
\* checkQueue included.
C36_NoOvertaking == [][AdmitStep => queue = <<>>]_vars

\* No worker thread is started, running or completing, and no addTask call
\* is inside its critical section.
Quiescent ==
    /\ subPc = "idle"
    /\ \A i \in Items : wk[i] \in {"none", "done"}

\* C37: with maxConcurrentTasks >= 1, when no worker is running or about to
\* start and no completion is in progress, the queue is empty.
C37_NoStrandedItem ==
    (maxConcurrentTasks >= 1 /\ Quiescent) => queue = <<>>

\* Items were queued behind a running one and every worker has ended.
C37_Witness ==
    /\ maxConcurrentTasks = 1
    /\ Quiescent
    /\ queue = <<>>
    /\ nextItem > NumSubmit
    /\ \E i \in Items : how[i] = "queued" /\ wk[i] = "done"

\* A step that takes an item off the in-process queue (queue.get): it is
\* made by the thread that holds the lock inside checkQueue, which ends
\* with it.
DequeueStep ==
    Len(queue') < Len(queue) =>
        /\ lock /\ ~lock'
        /\ queue # <<>>
        /\ queue' = dequeueRest(queue)
        /\ \E i \in Items : wk[i] = "checkLocked" /\ wk'[i] = "done"

\* C38: the scheduler does not deadlock on its lock: the blocking dequeue is
\* called only by the holder of the lock on a queue that is not empty, the
\* lock is held exactly while one thread is inside a with-block, and a lock
\* that is held is released.
C38_NoLockDeadlock ==
    /\ [][DequeueStep]_vars
    /\ [](lock <=> InCritical = 1)
    /\ (lock ~> ~lock)

\* Every exit path was taken: an immediate start, an enqueue, a function
\* that raised, a drain that started a queued item and a drain that found
\* the queue empty; the lock is free.
C38_Witness ==
    /\ ~lock
    /\ anyRaised
    /\ Quiescent
    /\ \E i, j \in Items :
          /\ how[i] = "immediate" /\ how[j] = "queued"
          /\ wk[i] = "done" /\ wk[j] = "done"

----------------------------------------------------------------------------
(* Claims on the durable queue *)

\* A call of the Redis client (rpush, llen or lpop) is in progress in p.
BackendCall(p) == dPc[p] \in {"rpush", "llen", "lpop"}

\* C33: with the durable queue the scheduler's lock is not held while a
\* queue-backend call (push, pop or isEmpty) is in progress.
C33_NoLockAcrossBackendCall == \A p \in Procs : BackendCall(p) => ~dLock[p]

\* The enqueue of process p's addTask fails in this step.
SubmitFails(p) == dPc[p] = "rpush" /\ dWk'[dWho[p]] = "failed"

\* A failed enqueue raises to the caller of addTask, changes neither the
\* counters nor the list nor any worker, and leaves the lock free.
SubmitFailStep ==
    \A p \in Procs :
        SubmitFails(p) =>
            /\ dErr' = "ConnectionError"
            /\ dCount' = dCount
            /\ dList' = dList
            /\ dExec' = dExec
            /\ \A k \in DItems : k # dWho[p] => dWk'[k] = dWk[k]
            /\ ~dLock'[p]
            /\ dPc'[p] = "idle"

\* C34: when the backend is unreachable during submit, the error reaches
\* the caller, the counter and the queue are unchanged and the lock is
\* released (it is held only inside a with-block), so that later submits
\* and completions go on.
C34_SubmitFailureIsClean ==
    /\ [][SubmitFailStep]_vars
    /\ [](\A p \in Procs : dLock[p] <=> dPc[p] # "idle")

\* A submission failed while the process was busy; an item submitted to the
\* same process after it has run and its completion has ended.
C34_Witness ==
    \E k, j \in DItems :
        /\ k < j
        /\ dWk[k] = "failed"
        /\ dProc[j] = dProc[k]
        /\ dWk[j] = "done"
        /\ ~dLock[dProc[k]]

\* The drain of process p takes an item off the list whose name is not in
\* FUNC_MAP.
UnknownPop(p) ==
    /\ dPc[p] = "lpop"
    /\ dPc'[p] = "idle"
    /\ dList # <<>>
    /\ dList' # dList
    /\ Head(dList).func \notin DOMAIN FUNC_MAP

UnknownPopStep ==
    \A p \in Procs :
        UnknownPop(p) =>
            /\ dErr' = "KeyError"
            /\ dCount' = dCount
            /\ dExec' = dExec
            /\ dWk'[Head(dList).task_id] # "started"
            /\ ~dLock'[p]

\* The workers of process p that have incremented the counter and not yet
\* decremented it.
Counted(p) == {k \in DItems : dProc[k] = p /\ dWk[k] = "running"}

\* C35: an item of the durable queue whose function name is not in FUNC_MAP
\* makes the drain raise an error; no worker is started and no slot is
\* consumed for it (the counter stays the number of workers between their
\* increment and decrement), and the lock is released.
C35_UnknownNameRaises ==
    /\ [][UnknownPopStep]_vars
    /\ [](\A p \in Procs : dCount[p] = Cardinality(Counted(p)))

C35_Witness ==
    \E p \in Procs, k \in DItems :
        /\ dErr = "KeyError"
        /\ dWk[k] = "lost"
        /\ dName[k] = "other"
        /\ ~dLock[p]
        /\ dCount[p] = 0

\* C39: two processes on one durable queue start at most one worker for
\* each queued item, and a drain whose pop returns nothing after the queue
\* was seen non-empty ends without error.
C39_SharedQueueDrain ==
    /\ \A k \in DItems : dExec[k] <= 1
    /\ dErr # "TypeError"

----------------------------------------------------------------------------
(* Claims on task deletion *)

\* C40: a task deleted while its orchestrator is queued or running is not
\* resurrected: once deleteVideo has removed the record, no update of the
\* orchestrator makes a record of the task visible again.
C40_DeletedStaysDeleted == deleted => taskState = "absent"

====
